---- MODULE Spec2Model ----
(***************************************************************************)
(* A model of bayeslite's math_util: the machine-constant probe, relerr,   *)
(* the continuant/convergent generators, the two sequence reducers and the *)
(* two regularized incomplete gamma routines.                              *)
(*                                                                         *)
(* Numbers.  A float is modelled by an exact rational <<n, d>> in lowest   *)
(* terms with d > 0.  The arithmetic of the routines (+, -, *, /, the      *)
(* comparisons) is exact; the float format appears where the code probes   *)
(* it (EMAX, EPSILON) and in the value libm's exp returns, through Fl, the *)
(* round-to-nearest-even of a format with FloatMantBits significant bits   *)
(* and largest exponent FloatMaxExp.  math.log, math.lgamma and math.exp   *)
(* are libm's, not this repository's: they are modelled by three-decimal   *)
(* values on the arguments the model draws.                                *)
(***************************************************************************)
EXTENDS Integers, Sequences, FiniteSets, TLC

VARIABLES EPSILON, EPSINV, EMAX, MAXLOG, calls, cf, rel, red

globals == <<EPSILON, EPSINV, EMAX, MAXLOG>>
vars == <<EPSILON, EPSINV, EMAX, MAXLOG, calls, cf, rel, red>>

(***************************************************************************)
(* Bounds of the model.                                                    *)
(***************************************************************************)
\* Significant bits of the modelled float format (53 for a double).
FloatMantBits == 4
\* Largest binary exponent of the modelled float format (1023 for a double).
FloatMaxExp == 7
\* Cap on the depth of the gamma_below/gamma_above call stack.
MaxDepth == 4
\* Number of terms the harnesses feed to one generator or reducer.
MaxTerms == 3
\* Number of terms of gamma_above's continued fraction whose continuants
\* are examined.
MaxContfrac == 6

(***************************************************************************)
(* Exact rational arithmetic.                                              *)
(***************************************************************************)
Abs(n) == IF n < 0 THEN -n ELSE n

RECURSIVE Gcd(_, _)
Gcd(a, b) == IF b = 0 THEN a ELSE Gcd(b, a % b)

Rat(n, d) ==
    LET g == Gcd(Abs(n), Abs(d))
        s == IF d < 0 THEN -1 ELSE 1
    IN  <<(s * n) \div g, (s * d) \div g>>

Zero == <<0, 1>>
One == <<1, 1>>
Two == <<2, 1>>
Int2R(n) == <<n, 1>>

Add(r, s) ==
    LET g == Gcd(r[2], s[2])
    IN  Rat(r[1] * (s[2] \div g) + s[1] * (r[2] \div g), (r[2] \div g) * s[2])
Neg(r) == <<-r[1], r[2]>>
Sub(r, s) == Add(r, Neg(s))
Mul(r, s) ==
    LET g1 == Gcd(Abs(r[1]), s[2])
        g2 == Gcd(Abs(s[1]), r[2])
    IN  Rat((r[1] \div g1) * (s[1] \div g2), (r[2] \div g2) * (s[2] \div g1))
\* The divisor is nonzero wherever Div is used: the callers model Python's
\* ZeroDivisionError before dividing.
Div(r, s) == Mul(r, Rat(s[2], s[1]))
\* r < s, by the integer parts and then the reciprocals of the fractional
\* parts, which keeps the integers small.
RECURSIVE Lt(_, _)
Lt(r, s) ==
    LET fr == r[1] \div r[2]
        fs == s[1] \div s[2]
        rr == r[1] - fr * r[2]
        rs == s[1] - fs * s[2]
    IN  IF fr # fs THEN fr < fs
        ELSE IF rs = 0 THEN FALSE
        ELSE IF rr = 0 THEN TRUE
        ELSE Lt(<<s[2], rs>>, <<r[2], rr>>)
Le(r, s) == ~Lt(s, r)
RAbs(r) == <<Abs(r[1]), r[2]>>
Max(r, s) == IF Lt(r, s) THEN s ELSE r
IsZero(r) == r[1] = 0

Pow2(k) == IF k >= 0 THEN <<2 ^ k, 1>> ELSE <<1, 2 ^ (-k)>>

Floor(r) == r[1] \div r[2]

(***************************************************************************)
(* The float format: rounding to FloatMantBits significant bits, ties to   *)
(* even.                                                                   *)
(***************************************************************************)
RoundHalfEven(r) ==
    LET f == Floor(r)
        rem2 == 2 * (r[1] - f * r[2])
    IN  IF rem2 < r[2] THEN f
        ELSE IF rem2 > r[2] THEN f + 1
        ELSE IF f % 2 = 0 THEN f ELSE f + 1

RECURSIVE FlPos(_, _)
FlPos(r, e) ==
    IF Le(Pow2(FloatMantBits), r) THEN FlPos(Div(r, Two), e + 1)
    ELSE IF Lt(r, Pow2(FloatMantBits - 1)) THEN FlPos(Mul(r, Two), e - 1)
    ELSE Mul(Int2R(RoundHalfEven(r)), Pow2(e))

Fl(r) == IF IsZero(r) THEN Zero
         ELSE IF r[1] < 0 THEN Neg(FlPos(Neg(r), 0))
         ELSE FlPos(r, 0)

(***************************************************************************)
(* libm, as far as the routines use it.                                    *)
(***************************************************************************)
LN2 == <<693, 1000>>

\* ln of a mantissa in [1, 2): libm's value to three decimals on the
\* mantissas the model draws, 2(m-1)/(m+1) elsewhere.
LnMant(m) ==
    CASE m = One -> Zero
      [] m = <<5, 4>> -> <<223, 1000>>
      [] m = <<3, 2>> -> <<405, 1000>>
      [] m = <<625, 512>> -> <<199, 1000>>
      [] OTHER -> Div(Mul(Two, Sub(m, One)), Add(m, One))

RECURSIVE LnScaled(_, _)
LnScaled(m, e) ==
    IF Le(Two, m) THEN LnScaled(Div(m, Two), e + 1)
    ELSE IF Lt(m, One) THEN LnScaled(Mul(m, Two), e - 1)
    ELSE Add(Mul(Int2R(e), LN2), LnMant(m))

\* math.log(x) for x > 0 (math.log raises ValueError for x <= 0).
Ln(x) == LnScaled(x, 0)

\* math.lgamma(a) to three decimals on the arguments the model draws.
Lgamma(a) ==
    CASE a = <<1, 2>> -> <<572, 1000>>
      [] a = <<3, 1>> -> <<693, 1000>>
      [] OTHER -> Zero

\* math.exp(w): 2^k * (1 + r + r^2/2) with w = k ln 2 + r, 0 <= r < ln 2
\* (r taken to the nearest 1/64), rounded to the float format.
Exp(w) ==
    LET k == Floor(Div(w, LN2))
        r == Sub(w, Mul(Int2R(k), LN2))
        r3 == Int2R(RoundHalfEven(Mul(r, Int2R(64))))
        rr == Div(r3, Int2R(64))
        poly == Add(Add(One, rr), Div(Mul(rr, rr), Two))
    IN  Mul(Fl(poly), Pow2(k))

(***************************************************************************)
(* The machine-constant probe (module level, run once at import).          *)
(***************************************************************************)
\* math.ldexp(1., e) raises OverflowError.
LdexpOverflows(e) == e > FloatMaxExp

RECURSIVE ProbeEMAX(_)
ProbeEMAX(e) == IF LdexpOverflows(e + 1) THEN e ELSE ProbeEMAX(e + 1)

RECURSIVE ProbeEPSILON(_)
ProbeEPSILON(eps) ==
    IF Fl(Add(One, Div(eps, Two))) # One THEN ProbeEPSILON(Div(eps, Two))
    ELSE eps

ProbeEPSINV(eps) == Div(One, eps)

ProbeMAXLOG(emax) == Add(Ln(Two), Ln(Pow2(emax)))

InitGlobals ==
    /\ EMAX = ProbeEMAX(1)
    /\ EPSILON = ProbeEPSILON(One)
    /\ EPSINV = ProbeEPSINV(ProbeEPSILON(One))
    /\ MAXLOG = ProbeMAXLOG(ProbeEMAX(1))

(***************************************************************************)
(* relerr                                                                  *)
(***************************************************************************)
\* relerr without its abs.
relerr_signed(expected, actual) == Div(Sub(actual, expected), expected)

\* The value relerr returns; Python raises ZeroDivisionError on expected = 0.
relerr(expected, actual) == RAbs(Div(Sub(actual, expected), expected))

relerr_raises(expected, actual) == IsZero(expected)

(***************************************************************************)
(* continuants: the locals of one generator instance and one turn of its   *)
(* loop.                                                                   *)
(***************************************************************************)
continuants_init == [p0 |-> One, q0 |-> Zero, p |-> Zero, q |-> One]

\* p0, q0, p, q = p, q, d*p + n*p0, d*q + n*q0
continuants_recurrence(cs, n, d) ==
    [p0 |-> cs.p, q0 |-> cs.q,
     p |-> Add(Mul(d, cs.p), Mul(n, cs.p0)),
     q |-> Add(Mul(d, cs.q), Mul(n, cs.q0))]

\* if p >= EPSINV or q >= EPSINV:
continuants_must_rescale(cs) == Le(EPSINV, cs.p) \/ Le(EPSINV, cs.q)

\* The guard rescaling the newest continuant only.
continuants_rescale_newest_only(cs) ==
    IF continuants_must_rescale(cs)
    THEN [cs EXCEPT !.p = Mul(cs.p, EPSILON), !.q = Mul(cs.q, EPSILON)]
    ELSE cs

continuants_rescale(cs) ==
    IF continuants_must_rescale(cs)
    THEN [p0 |-> Mul(cs.p0, EPSILON), q0 |-> Mul(cs.q0, EPSILON),
          p |-> Mul(cs.p, EPSILON), q |-> Mul(cs.q, EPSILON)]
    ELSE cs

\* One turn of the for loop up to the assertion: the locals after it.
continuants_step(cs, n, d) == continuants_rescale(continuants_recurrence(cs, n, d))

\* The assertion compiled away.
continuants_assert_off(cs) == TRUE

\* assert q != 0
continuants_assert(cs) == ~IsZero(cs.q)

(***************************************************************************)
(* convergents: the locals of one generator instance.  phase is the place  *)
(* the generator is suspended at: "first" before cs.next(), "loop" inside  *)
(* the for loop, "repeat" inside the final while loop.                     *)
(***************************************************************************)
convergents_init == [p0 |-> Zero, q0 |-> One, c |-> Zero, phase |-> "first"]

\* The generator resumed with the continuant (p, q) that cs just yielded:
\* its locals after it, up to its next yield (p0, q0 = p, q, which the code
\* runs on the following resumption before anything reads p0 or q0, is
\* taken here).
convergents_step(cv, p, q) ==
    IF cv.phase = "first"
    THEN [cv EXCEPT !.p0 = p, !.q0 = q, !.phase = "loop"]
    ELSE IF IsZero(p)
    THEN [cv EXCEPT !.c = Div(cv.p0, cv.q0), !.phase = "repeat"]
    ELSE [cv EXCEPT !.p0 = p, !.q0 = q]

\* The zero-numerator continuant's own ratio yielded.
convergents_value_of_zero(cv, p, q) == Div(p, q)

\* The value that yield hands out.
convergents_value(cv, p, q) ==
    IF cv.phase = "first" THEN Div(p, q)
    ELSE IF IsZero(p) THEN Div(cv.p0, cv.q0)
    ELSE Div(p, q)

\* The generator resumed when cs is exhausted (the for loop ends).
convergents_exhausted(cv) == [cv EXCEPT !.c = Div(cv.p0, cv.q0), !.phase = "repeat"]

(***************************************************************************)
(* abs_summation and limit: the locals of one call and one turn of its     *)
(* loop.  out is what the turn ends in: "more" (the loop goes on),         *)
(* "return", or the exception raised.                                      *)
(***************************************************************************)
abs_summation_init == [s |-> Zero, first |-> TRUE, out |-> "more"]

abs_summation_step(st, t) ==
    IF st.first THEN [st EXCEPT !.s = t, !.first = FALSE]
    ELSE IF ~Le(Zero, t) THEN [st EXCEPT !.out = "AssertionError"]
    ELSE IF IsZero(Add(st.s, t))
    THEN [st EXCEPT !.s = Add(st.s, t), !.out = "ZeroDivisionError"]
    ELSE IF Le(Div(t, Add(st.s, t)), EPSILON)
    THEN [st EXCEPT !.s = Add(st.s, t), !.out = "return"]
    ELSE [st EXCEPT !.s = Add(st.s, t)]

limit_init == [c0 |-> Zero, first |-> TRUE, out |-> "more"]

limit_step(st, c) ==
    IF st.first THEN [st EXCEPT !.c0 = c, !.first = FALSE]
    ELSE IF IsZero(c) THEN [st EXCEPT !.out = "return"]
    ELSE IF relerr_raises(st.c0, c) THEN [st EXCEPT !.out = "ZeroDivisionError"]
    ELSE IF Le(relerr(st.c0, c), EPSILON) THEN [st EXCEPT !.out = "return"]
    ELSE [st EXCEPT !.c0 = c]

(***************************************************************************)
(* gamma_below and gamma_above: one call is a record of the stack of       *)
(* active frames (innermost last), the place the innermost frame is at,    *)
(* the locals of the frame and of the generators it created, and what the  *)
(* call has done so far (ndeleg, nterms, logArgs, nexp, path, evalret).    *)
(***************************************************************************)
Routines == {"gamma_below", "gamma_above"}
\* The arguments a single call is made with, and those of two concurrent calls.
AVals == {<<-1, 1>>, Zero, <<1, 2>>, One, <<3, 1>>}
XVals == {<<-1, 1>>, Zero, <<1, 8>>, <<1, 2>>, One, <<3, 1>>, <<8, 1>>, <<5000, 1>>}
ParAVals == {<<1, 2>>, <<3, 1>>}
ParXVals == {Zero, <<1, 2>>, <<3, 1>>, <<8, 1>>}

NewCall(fn, a, x) ==
    [fn |-> fn, a |-> a, x |-> x,
     status |-> "running", stack |-> <<fn>>, pc |-> "enter",
     ret |-> Zero, result |-> Zero,
     w |-> Zero, m |-> Zero,
     sq |-> [k |-> 0, t |-> One, started |-> FALSE],
     sum |-> abs_summation_init,
     gen |-> [i |-> 0, started |-> FALSE],
     term |-> <<Zero, One>>,
     cs |-> continuants_init,
     cv |-> convergents_init,
     val |-> Zero,
     lim |-> limit_init,
     ndeleg |-> 0, nterms |-> 0, logArgs |-> {}, nexp |-> 0,
     path |-> "none", evalret |-> Zero]

Top(c) == c.stack[Len(c.stack)]

\* An uncaught exception ends the call.
Raise(c, exc) == [c EXCEPT !.status = exc, !.stack = <<>>, !.pc = "done"]

\* The innermost frame returns v, the value of the representation `path`.
Evaluated(c, v, path) ==
    [c EXCEPT !.pc = "return", !.ret = v, !.evalret = v, !.path = path]

\* The domain check without its assertion on x.
DomainOK_a_only(a, x) == Lt(Zero, a)

\* assert 0. < a; assert 0. <= x
DomainOK(a, x) == Lt(Zero, a) /\ Le(Zero, x)

\* gamma_below without its x == 0 shortcut.
ZeroShortcut_never(x) == FALSE

\* if x == 0.:
ZeroShortcut(x) == IsZero(x)

\* gamma_below delegating at x = max(1, a) too.
gamma_below_delegates_nonstrict(a, x) == Le(Max(One, a), x)

\* if x > max(1., a):
gamma_below_delegates(a, x) == Lt(Max(One, a), x)

\* gamma_above evaluating its continued fraction for every x.
gamma_above_delegates_never(a, x) == FALSE

\* gamma_above evaluating its continued fraction at x = max(1, a) too.
gamma_above_delegates_strict(a, x) == Lt(x, Max(One, a))

\* if x <= max(1., a):
gamma_above_delegates(a, x) == Le(x, Max(One, a))

\* w = a*math.log(x) - x - math.lgamma(a)
Prefactor(a, x) == Sub(Sub(Mul(a, Ln(x)), x), Lgamma(a))

\* The underflow guard with the comparison reversed.
Underflows_reversed(w) == Lt(Neg(MAXLOG), w)

\* if w < -MAXLOG:
Underflows(w) == Lt(w, Neg(MAXLOG))

\* The prefactor lines of either routine: w, the underflow guard, m; then
\* the reducer is called on a fresh generator (pc, path).
prefactor(c, pc, path) ==
    IF ~Lt(Zero, c.x)
    THEN Raise([c EXCEPT !.logArgs = @ \cup {c.x}], "ValueError")
    ELSE LET w == Prefactor(c.a, c.x)
             c1 == [c EXCEPT !.w = w, !.logArgs = @ \cup {c.x}]
         IN  IF Underflows(w) THEN Evaluated(c1, Zero, "underflow")
             ELSE IF Lt(MAXLOG, w) THEN Raise(c1, "OverflowError")
             ELSE [c1 EXCEPT !.m = Exp(w), !.nexp = @ + 1,
                             !.pc = pc, !.path = path]

\* The innermost frame calls the other routine.
delegate(c, fn) ==
    [c EXCEPT !.stack = Append(@, fn), !.ndeleg = @ + 1, !.pc = "enter"]

gamma_below_enter(c) ==
    IF ~DomainOK(c.a, c.x) THEN Raise(c, "AssertionError")
    ELSE IF ZeroShortcut(c.x) THEN Evaluated(c, Zero, "zero")
    ELSE IF gamma_below_delegates(c.a, c.x) THEN delegate(c, "gamma_above")
    ELSE prefactor(c, "seq", "series")

gamma_above_enter(c) ==
    IF ~DomainOK(c.a, c.x) THEN Raise(c, "AssertionError")
    ELSE IF gamma_above_delegates(c.a, c.x) THEN delegate(c, "gamma_below")
    ELSE prefactor(c, "contfrac", "contfrac")

\* gamma_below.seq resumed: t = 1, then t *= x/(a + k).
seq_next(c) ==
    IF ~c.sq.started
    THEN [c EXCEPT !.sq = [k |-> 0, t |-> One, started |-> TRUE],
                   !.val = One, !.nterms = @ + 1, !.pc = "abs_summation"]
    ELSE LET k == c.sq.k + 1
             den == Add(c.a, Int2R(k))
         IN  IF IsZero(den) THEN Raise(c, "ZeroDivisionError")
             ELSE LET t == Mul(c.sq.t, Div(c.x, den))
                  IN  [c EXCEPT !.sq = [k |-> k, t |-> t, started |-> TRUE],
                                !.val = t, !.nterms = @ + 1,
                                !.pc = "abs_summation"]

\* abs_summation resumed with the term seq yielded; on return gamma_below
\* returns (m/a)*s.
abs_summation_next(c) ==
    LET st == abs_summation_step(c.sum, c.val)
    IN  IF st.out = "more" THEN [c EXCEPT !.sum = st, !.pc = "seq"]
        ELSE IF st.out = "return"
        THEN Evaluated([c EXCEPT !.sum = st], Mul(Div(c.m, c.a), st.s), "series")
        ELSE Raise([c EXCEPT !.sum = st], st.out)

\* gamma_above.contfrac resumed: (1, x), then ((i//2) + 1 - a, 1) for even i
\* and ((i + 1)//2, x) for odd i.
contfrac_term(gen, a, x) ==
    IF ~gen.started THEN <<One, x>>
    ELSE IF gen.i % 2 = 0 THEN <<Sub(Int2R((gen.i \div 2) + 1), a), One>>
    ELSE <<Int2R((gen.i + 1) \div 2), x>>

contfrac_next(c) ==
    [c EXCEPT !.term = contfrac_term(c.gen, c.a, c.x),
              !.gen = IF c.gen.started THEN [i |-> c.gen.i + 1, started |-> TRUE]
                      ELSE [i |-> 0, started |-> TRUE],
              !.nterms = @ + 1, !.pc = "continuants"]

\* continuants resumed with the term contfrac yielded.
continuants_next(c) ==
    LET cs == continuants_step(c.cs, c.term[1], c.term[2])
    IN  IF continuants_assert(cs) THEN [c EXCEPT !.cs = cs, !.pc = "convergents"]
        ELSE Raise([c EXCEPT !.cs = cs], "AssertionError")

\* convergents resumed: with the continuant cs yielded, or inside its final
\* loop.
convergents_next(c) ==
    IF c.cv.phase = "repeat" THEN [c EXCEPT !.val = c.cv.c, !.pc = "limit"]
    ELSE [c EXCEPT !.cv = convergents_step(c.cv, c.cs.p, c.cs.q),
                   !.val = convergents_value(c.cv, c.cs.p, c.cs.q),
                   !.pc = "limit"]

\* limit resumed with the value convergents yielded; on return gamma_above
\* returns m*c.
limit_next(c) ==
    LET st == limit_step(c.lim, c.val)
    IN  IF st.out = "more"
        THEN [c EXCEPT !.lim = st,
                       !.pc = IF c.cv.phase = "repeat" THEN "convergents"
                              ELSE "contfrac"]
        ELSE IF st.out = "return"
        THEN Evaluated([c EXCEPT !.lim = st], Mul(c.m, c.val), "contfrac")
        ELSE Raise([c EXCEPT !.lim = st], st.out)

\* The delegating frame returning the callee's value as it is.
return_complement_identity(c) ==
    [c EXCEPT !.stack = SubSeq(@, 1, Len(@) - 1)]

\* return 1. - gamma_above(a, x) / return 1. - gamma_below(a, x): the callee
\* returned ret to the frame that called it.
return_complement(c) ==
    [c EXCEPT !.stack = SubSeq(@, 1, Len(@) - 1), !.ret = Sub(One, c.ret)]

\* The outermost frame returns to the caller of the routine.
return_result(c) ==
    [c EXCEPT !.stack = <<>>, !.result = c.ret, !.status = "returned",
              !.pc = "done"]

(***************************************************************************)
(* The calls: top-level calls of gamma_below/gamma_above, each taking one  *)
(* step at a time, in any interleaving.  Spec runs one call, SpecPar two.  *)
(***************************************************************************)
At(t, pc) == calls[t].status = "running" /\ calls[t].pc = pc

Becomes(t, c) ==
    /\ Len(c.stack) <= MaxDepth
    /\ calls' = [calls EXCEPT ![t] = c]
    /\ UNCHANGED <<globals, cf, rel, red>>

GammaBelowEnter(t) ==
    /\ At(t, "enter") /\ Top(calls[t]) = "gamma_below"
    /\ Becomes(t, gamma_below_enter(calls[t]))

GammaAboveEnter(t) ==
    /\ At(t, "enter") /\ Top(calls[t]) = "gamma_above"
    /\ Becomes(t, gamma_above_enter(calls[t]))

SeqNext(t) == At(t, "seq") /\ Becomes(t, seq_next(calls[t]))

AbsSummationNext(t) ==
    At(t, "abs_summation") /\ Becomes(t, abs_summation_next(calls[t]))

ContfracNext(t) == At(t, "contfrac") /\ Becomes(t, contfrac_next(calls[t]))

\* continuants keeping p0, q0, p, q at module level, shared by every call.
ContinuantsNextShared(t) ==
    /\ At(t, "continuants")
    /\ LET c == continuants_next(calls[t])
       IN  calls' = [u \in DOMAIN calls |->
                        IF u = t THEN c ELSE [calls[u] EXCEPT !.cs = c.cs]]
    /\ UNCHANGED <<globals, cf, rel, red>>

ContinuantsNext(t) ==
    At(t, "continuants") /\ Becomes(t, continuants_next(calls[t]))

ConvergentsNext(t) ==
    At(t, "convergents") /\ Becomes(t, convergents_next(calls[t]))

LimitNext(t) == At(t, "limit") /\ Becomes(t, limit_next(calls[t]))

ReturnComplement(t) ==
    /\ At(t, "return") /\ Len(calls[t].stack) > 1
    /\ Becomes(t, return_complement(calls[t]))

ReturnResult(t) ==
    /\ At(t, "return") /\ Len(calls[t].stack) = 1
    /\ Becomes(t, return_result(calls[t]))

\* One step of a call on its own.
Step(c) ==
    CASE c.pc = "enter" /\ Top(c) = "gamma_below" -> gamma_below_enter(c)
      [] c.pc = "enter" /\ Top(c) = "gamma_above" -> gamma_above_enter(c)
      [] c.pc = "seq" -> seq_next(c)
      [] c.pc = "abs_summation" -> abs_summation_next(c)
      [] c.pc = "contfrac" -> contfrac_next(c)
      [] c.pc = "continuants" -> continuants_next(c)
      [] c.pc = "convergents" -> convergents_next(c)
      [] c.pc = "limit" -> limit_next(c)
      [] c.pc = "return" /\ Len(c.stack) > 1 -> return_complement(c)
      [] c.pc = "return" /\ Len(c.stack) = 1 -> return_result(c)

\* The call run alone, to its end.
RECURSIVE RunAlone(_)
RunAlone(c) ==
    IF c.status # "running" THEN c
    ELSE LET next == Step(c) IN RunAlone(next)

IdleCalls == <<>>
IdleCF == [pc |-> "idle"]
IdleRel == [pc |-> "idle"]
IdleRed == [pc |-> "idle"]

Inputs(as, xs) == {NewCall(fn, a, x) : fn \in Routines, a \in as, x \in xs}

Init ==
    /\ InitGlobals
    /\ calls \in [{1} -> Inputs(AVals, XVals)]
    /\ cf = IdleCF
    /\ rel = IdleRel
    /\ red = IdleRed

InitPar ==
    /\ InitGlobals
    /\ calls \in [{1, 2} -> Inputs(ParAVals, ParXVals)]
    /\ cf = IdleCF
    /\ rel = IdleRel
    /\ red = IdleRed

Next ==
    \/ \E t \in DOMAIN calls : GammaBelowEnter(t)
    \/ \E t \in DOMAIN calls : GammaAboveEnter(t)
    \/ \E t \in DOMAIN calls : SeqNext(t)
    \/ \E t \in DOMAIN calls : AbsSummationNext(t)
    \/ \E t \in DOMAIN calls : ContfracNext(t)
    \/ \E t \in DOMAIN calls : ContinuantsNext(t)
    \/ \E t \in DOMAIN calls : ConvergentsNext(t)
    \/ \E t \in DOMAIN calls : LimitNext(t)
    \/ \E t \in DOMAIN calls : ReturnComplement(t)
    \/ \E t \in DOMAIN calls : ReturnResult(t)

Spec == Init /\ [][Next]_vars

SpecPar == InitPar /\ [][Next]_vars

(***************************************************************************)
(* relerr applied to drawn arguments.                                      *)
(***************************************************************************)
RelVals == {<<-3, 1>>, <<-2, 1>>, <<-1, 1>>, <<-1, 2>>, <<-1, 8>>, Zero,
            <<1, 8>>, <<1, 2>>, One, <<2, 1>>, <<3, 1>>}

InitRelerr ==
    /\ InitGlobals
    /\ calls = IdleCalls
    /\ cf = IdleCF
    /\ red = IdleRed
    /\ rel \in [expected : RelVals, actual : RelVals, pc : {"call"}, result : {Zero}]

RelerrCall ==
    /\ rel.pc = "call"
    /\ rel' = IF relerr_raises(rel.expected, rel.actual)
              THEN [rel EXCEPT !.pc = "ZeroDivisionError"]
              ELSE [rel EXCEPT !.pc = "returned",
                               !.result = relerr(rel.expected, rel.actual)]
    /\ UNCHANGED <<globals, calls, cf, red>>

SpecRelerr == InitRelerr /\ [][RelerrCall]_vars

(***************************************************************************)
(* continuants and convergents on drawn term sequences: convergents(terms) *)
(* is consumed value by value; terms is what the input has yielded so far, *)
(* pairs what continuants has yielded, vals what convergents has yielded,  *)
(* raw the continuant of the last turn before the overflow guard.          *)
(***************************************************************************)
TermNs == {Int2R(-3), Zero, One}
TermDs == {Int2R(-3), Zero, One, Int2R(3)}

InitCF ==
    /\ InitGlobals
    /\ calls = IdleCalls
    /\ rel = IdleRel
    /\ red = IdleRed
    /\ cf = [pc |-> "source", status |-> "running", terms |-> <<>>,
             pairs |-> <<>>, vals |-> <<>>, cs |-> continuants_init,
             raw |-> continuants_init, cv |-> convergents_init]

\* The input yields its next term (n, d) to continuants.
SourceYield(n, d) ==
    /\ cf.pc = "source" /\ Len(cf.terms) < MaxTerms
    /\ cf' = [cf EXCEPT !.terms = Append(@, <<n, d>>), !.pc = "continuants"]
    /\ UNCHANGED <<globals, calls, rel, red>>

\* The input is exhausted: the for loop of continuants ends, and with it the
\* generator; convergents ends too when it was waiting for the first
\* continuant, and leaves its for loop otherwise.
SourceExhausted ==
    /\ cf.pc = "source"
    /\ cf' = IF cf.cv.phase = "first"
             THEN [cf EXCEPT !.pc = "done", !.status = "exhausted"]
             ELSE [cf EXCEPT !.cv = convergents_exhausted(cf.cv),
                             !.vals = Append(@, Div(cf.cv.p0, cf.cv.q0)),
                             !.pc = "repeat"]
    /\ UNCHANGED <<globals, calls, rel, red>>

\* continuants takes one turn of its loop with the term it was handed.
ContinuantsTurn ==
    /\ cf.pc = "continuants"
    /\ LET t == cf.terms[Len(cf.terms)]
           raw == continuants_recurrence(cf.cs, t[1], t[2])
           cs == continuants_step(cf.cs, t[1], t[2])
       IN  cf' = IF continuants_assert(cs)
                 THEN [cf EXCEPT !.cs = cs, !.raw = raw,
                                 !.pairs = Append(@, <<cs.p, cs.q>>),
                                 !.pc = "convergents"]
                 ELSE [cf EXCEPT !.cs = cs, !.raw = raw,
                                 !.pc = "done", !.status = "AssertionError"]
    /\ UNCHANGED <<globals, calls, rel, red>>

\* convergents is resumed with the continuant and yields a value.
ConvergentsTurn ==
    /\ cf.pc = "convergents"
    /\ LET cv == convergents_step(cf.cv, cf.cs.p, cf.cs.q)
       IN  cf' = [cf EXCEPT !.cv = cv,
                            !.vals = Append(@, convergents_value(cf.cv, cf.cs.p, cf.cs.q)),
                            !.pc = IF cv.phase = "repeat" THEN "repeat" ELSE "source"]
    /\ UNCHANGED <<globals, calls, rel, red>>

\* convergents is resumed inside its final loop.
ConvergentsRepeat ==
    /\ cf.pc = "repeat" /\ Len(cf.vals) <= MaxTerms
    /\ cf' = [cf EXCEPT !.vals = Append(@, cf.cv.c)]
    /\ UNCHANGED <<globals, calls, rel, red>>

NextCF ==
    \/ \E n \in TermNs, d \in TermDs : SourceYield(n, d)
    \/ SourceExhausted
    \/ ContinuantsTurn
    \/ ConvergentsTurn
    \/ ConvergentsRepeat

SpecCF == InitCF /\ [][NextCF]_vars

(***************************************************************************)
(* limit on drawn sequences: taken is what the input has yielded so far,   *)
(* st the locals of the call, result the value returned.                   *)
(***************************************************************************)
LimitVals == {Int2R(-5), Zero, Int2R(4), Int2R(5), Int2R(8), Int2R(9)}

InitLimit ==
    /\ InitGlobals
    /\ calls = IdleCalls
    /\ cf = IdleCF
    /\ rel = IdleRel
    /\ red = [fn |-> "limit", pc |-> "source", status |-> "running",
              taken |-> <<>>, st |-> limit_init, result |-> Zero]

\* The input yields its next element to limit.
LimitSourceYield(c) ==
    /\ red.fn = "limit" /\ red.pc = "source" /\ Len(red.taken) < MaxTerms
    /\ red' = [red EXCEPT !.taken = Append(@, c), !.pc = "turn"]
    /\ UNCHANGED <<globals, calls, cf, rel>>

\* The input is exhausted: sequence.next() raises StopIteration, and the
\* for loop, once entered, ends and the function returns None.
LimitSourceExhausted ==
    /\ red.fn = "limit" /\ red.pc = "source"
    /\ red' = [red EXCEPT !.pc = "done",
                          !.status = IF red.st.first THEN "StopIteration"
                                     ELSE "returned None"]
    /\ UNCHANGED <<globals, calls, cf, rel>>

\* limit runs up to its next request for an element, its return or the
\* exception.
LimitTurn ==
    /\ red.fn = "limit" /\ red.pc = "turn"
    /\ LET c == red.taken[Len(red.taken)]
           st == limit_step(red.st, c)
       IN  red' = IF st.out = "more" THEN [red EXCEPT !.st = st, !.pc = "source"]
                  ELSE IF st.out = "return"
                  THEN [red EXCEPT !.st = st, !.pc = "done",
                                   !.status = "returned", !.result = c]
                  ELSE [red EXCEPT !.st = st, !.pc = "done", !.status = st.out]
    /\ UNCHANGED <<globals, calls, cf, rel>>

NextLimit ==
    \/ \E c \in LimitVals : LimitSourceYield(c)
    \/ LimitSourceExhausted
    \/ LimitTurn

SpecLimit == InitLimit /\ [][NextLimit]_vars

(***************************************************************************)
(* abs_summation on drawn sequences, with the same fields.                 *)
(***************************************************************************)
SumVals == {Int2R(-8), Int2R(-1), Zero, One, Int2R(8)}

InitAbsSummation ==
    /\ InitGlobals
    /\ calls = IdleCalls
    /\ cf = IdleCF
    /\ rel = IdleRel
    /\ red = [fn |-> "abs_summation", pc |-> "source", status |-> "running",
              taken |-> <<>>, st |-> abs_summation_init, result |-> Zero]

\* The input yields its next term to abs_summation.
AbsSummationSourceYield(t) ==
    /\ red.fn = "abs_summation" /\ red.pc = "source" /\ Len(red.taken) < MaxTerms
    /\ red' = [red EXCEPT !.taken = Append(@, t), !.pc = "turn"]
    /\ UNCHANGED <<globals, calls, cf, rel>>

\* The input is exhausted: sequence.next() raises StopIteration, and the
\* for loop, once entered, ends and the function returns None.
AbsSummationSourceExhausted ==
    /\ red.fn = "abs_summation" /\ red.pc = "source"
    /\ red' = [red EXCEPT !.pc = "done",
                          !.status = IF red.st.first THEN "StopIteration"
                                     ELSE "returned None"]
    /\ UNCHANGED <<globals, calls, cf, rel>>

\* abs_summation runs up to its next request for a term, its return or the
\* exception.
AbsSummationTurn ==
    /\ red.fn = "abs_summation" /\ red.pc = "turn"
    /\ LET st == abs_summation_step(red.st, red.taken[Len(red.taken)])
       IN  red' = IF st.out = "more" THEN [red EXCEPT !.st = st, !.pc = "source"]
                  ELSE IF st.out = "return"
                  THEN [red EXCEPT !.st = st, !.pc = "done",
                                   !.status = "returned", !.result = st.s]
                  ELSE [red EXCEPT !.st = st, !.pc = "done", !.status = st.out]
    /\ UNCHANGED <<globals, calls, cf, rel>>

NextAbsSummation ==
    \/ \E t \in SumVals : AbsSummationSourceYield(t)
    \/ AbsSummationSourceExhausted
    \/ AbsSummationTurn

SpecAbsSummation == InitAbsSummation /\ [][NextAbsSummation]_vars

(***************************************************************************)
(* The properties.                                                         *)
(***************************************************************************)
Valid(c) == Lt(Zero, c.a) /\ Le(Zero, c.x)
Finished(c) == c.status # "running"
\* The routine that evaluates its own representation at (a, x).
Evaluator(c) == IF Lt(Max(One, c.a), c.x) THEN "gamma_above" ELSE "gamma_below"

\* C1: for a > 0 and x >= 0, gamma_below(a, x) + gamma_above(a, x) = 1:
\* exactly one of the two calls evaluates its own representation to a value
\* v and returns it, and the other calls it once and returns 1 - v for the
\* same v.
C1_Complementary ==
    \A t, u \in DOMAIN calls :
        LET b == calls[t]
            g == calls[u]
        IN  (/\ b.fn = "gamma_below" /\ g.fn = "gamma_above"
             /\ b.a = g.a /\ b.x = g.x /\ Valid(b)
             /\ Finished(b) /\ Finished(g))
            => /\ b.status = "returned" /\ g.status = "returned"
               /\ Add(b.result, g.result) = One
               /\ (b.ndeleg = 0) # (g.ndeleg = 0)
               /\ LET own == IF b.ndeleg = 0 THEN b ELSE g
                      other == IF b.ndeleg = 0 THEN g ELSE b
                  IN  /\ own.result = own.evalret
                      /\ other.ndeleg = 1
                      /\ other.evalret = own.result
                      /\ other.result = Sub(One, own.result)

\* Both calls of a pair have returned, the value being one a continued
\* fraction was evaluated to.
C1_Witness ==
    /\ DOMAIN calls = {1, 2}
    /\ calls[1].fn = "gamma_below" /\ calls[2].fn = "gamma_above"
    /\ calls[1].a = calls[2].a /\ calls[1].x = calls[2].x
    /\ calls[1].status = "returned" /\ calls[2].status = "returned"
    /\ calls[2].path = "contfrac" /\ calls[2].ndeleg = 0
    /\ calls[1].ndeleg = 1 /\ ~IsZero(calls[2].result)

\* C2: a call with a <= 0 or x < 0 fails its assertion at its first step:
\* it is either still to begin or has raised AssertionError, and it has
\* called nothing, evaluated no logarithm or exponential, produced no
\* sequence element and returned no value.
C2_DomainCheckFirst ==
    \A t \in DOMAIN calls :
        LET c == calls[t]
        IN  ~Valid(c) =>
               /\ \/ c.status = "running" /\ c.pc = "enter" /\ c.stack = <<c.fn>>
                  \/ c.status = "AssertionError"
               /\ c.ndeleg = 0 /\ c.nterms = 0 /\ c.nexp = 0
               /\ c.logArgs = {} /\ c.path = "none"

\* A call with a <= 0 and x = 0 has raised AssertionError.
C2_Witness ==
    \E t \in DOMAIN calls :
        /\ ~Lt(Zero, calls[t].a) /\ IsZero(calls[t].x)
        /\ calls[t].status = "AssertionError"

\* C3: for a > 0, gamma_below(a, 0) returns 0 and gamma_above(a, 0) returns
\* 1, and neither evaluates a logarithm or an exponential or produces a
\* sequence element.
C3_ZeroArgument ==
    \A t \in DOMAIN calls :
        LET c == calls[t]
        IN  (Lt(Zero, c.a) /\ IsZero(c.x)) =>
               /\ c.logArgs = {} /\ c.nexp = 0 /\ c.nterms = 0
               /\ Finished(c) =>
                     /\ c.status = "returned"
                     /\ c.result = IF c.fn = "gamma_below" THEN Zero ELSE One

\* gamma_above(a, 0) has returned 1.
C3_Witness ==
    \E t \in DOMAIN calls :
        /\ calls[t].fn = "gamma_above" /\ IsZero(calls[t].x)
        /\ calls[t].status = "returned" /\ calls[t].result = One

\* C4: when the exponent w = a ln x - x - lgamma(a) is below -MAXLOG, the
\* routine that evaluates its own representation returns 0 without
\* evaluating exp or consuming a sequence element; so the call returns 0
\* when it is that routine and 1 when it is the other one (for x > max(1, a):
\* gamma_above returns 0 and gamma_below returns 1).
C4_Underflow ==
    \A t \in DOMAIN calls :
        LET c == calls[t]
        IN  (Valid(c) /\ ~IsZero(c.x) /\ Lt(Prefactor(c.a, c.x), Neg(MAXLOG))) =>
               /\ c.nexp = 0 /\ c.nterms = 0
               /\ Finished(c) =>
                     /\ c.status = "returned"
                     /\ c.path = "underflow" /\ c.evalret = Zero
                     /\ c.result = IF c.fn = Evaluator(c) THEN Zero ELSE One

\* gamma_below(1, 5000) has returned 1, the upper routine having underflowed.
C4_Witness ==
    \E t \in DOMAIN calls :
        /\ calls[t].fn = "gamma_below"
        /\ calls[t].a = One /\ calls[t].x = Int2R(5000)
        /\ calls[t].status = "returned" /\ calls[t].result = One
        /\ calls[t].path = "underflow" /\ calls[t].ndeleg = 1

\* C5, as claimed: at x = max(1, a), gamma_below is computed by the power
\* series and gamma_above by the continued fraction.
C5_SeamTwoRepresentations ==
    \A t \in DOMAIN calls :
        LET c == calls[t]
        IN  (Valid(c) /\ c.x = Max(One, c.a) /\ Finished(c)) =>
               /\ c.ndeleg = 0
               /\ c.path = IF c.fn = "gamma_below" THEN "series" ELSE "contfrac"

\* C5, amended: at x = max(1, a), gamma_below is computed by the power
\* series, and gamma_above calls gamma_below and returns 1 minus the value
\* of that same power series; no continued-fraction term is produced.
C5_SeamOneRepresentation ==
    \A t \in DOMAIN calls :
        LET c == calls[t]
        IN  (Valid(c) /\ c.x = Max(One, c.a)) =>
               /\ c.path \in {"none", "series"}
               /\ c.pc \notin {"contfrac", "continuants", "convergents", "limit"}
               /\ Finished(c) =>
                     /\ c.status = "returned" /\ c.path = "series"
                     /\ c.ndeleg = IF c.fn = "gamma_below" THEN 0 ELSE 1
                     /\ c.result = IF c.fn = "gamma_below" THEN c.evalret
                                   ELSE Sub(One, c.evalret)

\* gamma_above(a, max(1, a)) has returned 1 minus a power-series value.
C5_Witness ==
    \E t \in DOMAIN calls :
        /\ calls[t].fn = "gamma_above" /\ Valid(calls[t])
        /\ calls[t].x = Max(One, calls[t].a)
        /\ calls[t].status = "returned" /\ calls[t].path = "series"
        /\ calls[t].nterms > 1

\* C6, as claimed: for expected # 0, relerr returns
\* |actual - expected| / expected.
C6_SignedDenominator ==
    (rel.pc # "call" /\ ~IsZero(rel.expected)) =>
        /\ rel.pc = "returned"
        /\ rel.result = Div(RAbs(Sub(rel.actual, rel.expected)), rel.expected)

\* C6, amended: for expected # 0, relerr returns
\* |actual - expected| / |expected|.
C6_AbsoluteDenominator ==
    (rel.pc # "call" /\ ~IsZero(rel.expected)) =>
        /\ rel.pc = "returned"
        /\ rel.result = Div(RAbs(Sub(rel.actual, rel.expected)), RAbs(rel.expected))

\* relerr has returned for a negative expected and a different actual.
C6_Witness ==
    /\ rel.pc = "returned" /\ rel.expected[1] < 0
    /\ rel.actual # rel.expected /\ rel.result[1] > 0

\* C7: a call calls the other routine at most once and the callee never
\* calls back: at most two frames are active, of different routines, and at
\* every (a, x) exactly one of the two branch conditions holds.
C7_NoMutualRecursion ==
    \A t \in DOMAIN calls :
        LET c == calls[t]
        IN  /\ Len(c.stack) <= 2
            /\ c.ndeleg <= 1
            /\ Len(c.stack) = 2 => (c.stack[1] = c.fn /\ c.stack[2] # c.fn /\ c.ndeleg = 1)
            /\ gamma_below_delegates(c.a, c.x) # gamma_above_delegates(c.a, c.x)

\* The callee of a delegating call is about to return to it.
C7_Witness ==
    \E t \in DOMAIN calls :
        /\ Len(calls[t].stack) = 2 /\ calls[t].pc = "return"
        /\ calls[t].nterms > 1

\* C8: the calls are independent: no step changes EPSILON, EPSINV, EMAX or
\* MAXLOG, and at the end of every interleaving each call is in the state
\* (result, exception and locals) it ends in when run alone.
C8_Independent ==
    /\ EMAX = ProbeEMAX(1)
    /\ EPSILON = ProbeEPSILON(One)
    /\ EPSINV = ProbeEPSINV(ProbeEPSILON(One))
    /\ MAXLOG = ProbeMAXLOG(ProbeEMAX(1))
    /\ (\A t \in DOMAIN calls : Finished(calls[t])) =>
           \A t \in DOMAIN calls :
               calls[t] = RunAlone(NewCall(calls[t].fn, calls[t].a, calls[t].x))

\* One call has returned a continued-fraction value while the other one is
\* in the middle of its own continued fraction.
C8_Witness ==
    /\ DOMAIN calls = {1, 2}
    /\ calls[1].status = "returned" /\ calls[1].path = "contfrac"
    /\ calls[2].status = "running" /\ calls[2].pc = "continuants"
    /\ calls[2].nterms > 1

\* The turn of continuants for the last term of the input has been taken.
TurnTaken == cf.pc # "continuants" /\ Len(cf.terms) > 0

Scaled(cs, f) ==
    [p0 |-> Mul(cs.p0, f), q0 |-> Mul(cs.q0, f), p |-> Mul(cs.p, f), q |-> Mul(cs.q, f)]

\* C9, as claimed: after a turn, p0, q0, p and q are the values of the
\* recurrence times EPSILON when |p| >= EPSINV or |q| >= EPSINV, and the
\* values of the recurrence otherwise.
C9_RescaleOnMagnitude ==
    TurnTaken =>
        cf.cs = IF Le(EPSINV, RAbs(cf.raw.p)) \/ Le(EPSINV, RAbs(cf.raw.q))
                THEN Scaled(cf.raw, EPSILON)
                ELSE cf.raw

RECURSIVE EpsPow(_)
EpsPow(j) == IF j = 0 THEN One ELSE LET f == EpsPow(j - 1) IN Mul(EPSILON, f)

\* The continuants of the recurrence without the overflow guard.
RECURSIVE Unrescaled(_)
Unrescaled(terms) ==
    IF terms = <<>> THEN [p0 |-> One, q0 |-> Zero, p |-> Zero, q |-> One]
    ELSE LET u == Unrescaled(SubSeq(terms, 1, Len(terms) - 1))
             n == terms[Len(terms)][1]
             d == terms[Len(terms)][2]
         IN  [p0 |-> u.p, q0 |-> u.q,
              p |-> Add(Mul(d, u.p), Mul(n, u.p0)),
              q |-> Add(Mul(d, u.q), Mul(n, u.q0))]

\* C10: the k-th pair continuants yields is EPSILON^j times the k-th
\* continuant of the unrescaled recurrence for some j, and so are, with the
\* same j, the p0, q0, p, q it carries on; one pair is yielded per term
\* taken, but for a term whose turn ends in the q != 0 assertion.
C10_ScalarMultiple ==
    /\ \A k \in 1..Len(cf.pairs) :
           \E j \in 0..k :
               LET u == Unrescaled(SubSeq(cf.terms, 1, k))
               IN  cf.pairs[k] = <<Mul(u.p, EpsPow(j)), Mul(u.q, EpsPow(j))>>
    /\ (TurnTaken /\ cf.status # "AssertionError") =>
           \E j \in 0..Len(cf.terms) :
               cf.cs = Scaled(Unrescaled(cf.terms), EpsPow(j))
    /\ Len(cf.pairs) = IF cf.pc = "continuants" \/ cf.status = "AssertionError"
                       THEN Len(cf.terms) - 1
                       ELSE Len(cf.terms)
    /\ cf.status = "AssertionError" => IsZero(cf.cs.q)

\* A third pair was yielded after the second one had been rescaled.
C10_Witness ==
    /\ Len(cf.pairs) = 3
    /\ LET u == Unrescaled(SubSeq(cf.terms, 1, 2))
       IN  cf.pairs[2] = <<Mul(u.p, EPSILON), Mul(u.q, EPSILON)>> /\ ~IsZero(u.p)
    /\ ~IsZero(cf.pairs[3][1])

\* C11: continuants yields no pair with q = 0: a turn whose new q is 0 ends
\* in AssertionError with nothing yielded for it, which happens at the first
\* such turn (every turn before it yielded a pair with q # 0), and every
\* quotient convergents takes, p/q of the continuant it is handed and
\* p0/q0 of the one it keeps, has a divisor other than zero.
C11_NonzeroDenominator ==
    /\ \A k \in 1..Len(cf.pairs) : ~IsZero(cf.pairs[k][2])
    /\ TurnTaken =>
           /\ (cf.status = "AssertionError") <=> IsZero(cf.cs.q)
           /\ IsZero(cf.cs.q) =>
                  /\ cf.pc = "done"
                  /\ Len(cf.pairs) = Len(cf.terms) - 1
                  /\ Len(cf.vals) = Len(cf.pairs)
    /\ cf.pc = "convergents" => ~IsZero(cf.cs.q)
    /\ cf.cv.phase # "first" => ~IsZero(cf.cv.q0)

\* The first term has d_0 = 0: the turn for it has ended in AssertionError.
C11_Witness ==
    /\ cf.status = "AssertionError"
    /\ Len(cf.terms) = 1 /\ IsZero(cf.terms[1][2])
    /\ cf.pairs = <<>> /\ cf.vals = <<>>

\* The continuants convergents has been handed and has answered with a value.
Handed == IF cf.pc = "convergents" THEN Len(cf.pairs) - 1 ELSE Len(cf.pairs)
\* The continuants after the first among them with p = 0.
ZeroNumerators == {k \in 2..Handed : IsZero(cf.pairs[k][1])}
Ratio(k) == Div(cf.pairs[k][1], cf.pairs[k][2])

\* C12: convergents yields p/q of the first continuant and of each one after
\* it, one input term taken per value, up to the first continuant z after
\* the first one with p = 0; from z on every value is the ratio yielded
\* before z (never the ratio of continuant z), the generator stays in its
\* final loop without ending, and no term beyond the z-th is ever taken.
C12_RepeatAfterZeroNumerator ==
    /\ (ZeroNumerators = {} /\ cf.cv.phase # "repeat") =>
           /\ Len(cf.vals) = Handed
           /\ \A k \in 1..Handed : cf.vals[k] = Ratio(k)
           /\ cf.pc = "source" => Len(cf.terms) = Len(cf.vals)
           /\ Len(cf.terms) \in {Len(cf.vals), Len(cf.vals) + 1}
    /\ ZeroNumerators # {} =>
           LET z == CHOOSE k \in ZeroNumerators : \A j \in ZeroNumerators : k <= j
           IN  /\ cf.cv.phase = "repeat" /\ cf.pc = "repeat"
               /\ cf.status = "running"
               /\ Len(cf.terms) = z /\ Len(cf.pairs) = z
               /\ Len(cf.vals) >= z
               /\ \A k \in 1..(z - 1) : cf.vals[k] = Ratio(k)
               /\ \A k \in z..Len(cf.vals) : cf.vals[k] = Ratio(z - 1)
               /\ cf.cv.c = Ratio(z - 1)

\* The third continuant has p = 0 after two with p # 0 and different
\* ratios, and convergents has been resumed again after answering it.
C12_Witness ==
    /\ Len(cf.pairs) = 3 /\ IsZero(cf.pairs[3][1])
    /\ ~IsZero(cf.pairs[1][1]) /\ ~IsZero(cf.pairs[2][1])
    /\ Ratio(1) # Ratio(2)
    /\ Len(cf.vals) > Len(cf.pairs)

\* The elements limit has dealt with.
Processed == IF red.pc = "turn" THEN Len(red.taken) - 1 ELSE Len(red.taken)
\* What the claim has limit do with element k, k > 1: the relative error
\* from a previous value of zero to a value other than zero is unbounded,
\* hence not <= EPSILON.
Outcome(k) ==
    IF IsZero(red.taken[k]) THEN "zero"
    ELSE IF IsZero(red.taken[k - 1]) THEN "continue"
    ELSE IF Le(relerr(red.taken[k - 1], red.taken[k]), EPSILON) THEN "stable"
    ELSE "continue"

\* C13, as claimed: each element after the first is dealt with in one of
\* three ways: zero is returned for a zero; the element is returned when
\* its relative error from the previous one is <= EPSILON; otherwise limit
\* goes on with it as the previous value.  limit returns at the first
\* element of the first two kinds and takes none after it, whatever the
\* first element is, zero included.
C13_ThreeOutcomes ==
    /\ red.status \in {"running", "returned", "returned None", "StopIteration"}
    /\ \A k \in 2..(Processed - 1) : Outcome(k) = "continue"
    /\ Processed >= 2 =>
           IF Outcome(Processed) = "continue"
           THEN red.status \in {"running", "returned None"}
                /\ red.st.c0 = red.taken[Processed]
           ELSE red.status = "returned" /\ red.result = red.taken[Processed]
                /\ Len(red.taken) = Processed

\* The sum of the first k terms taken.
RECURSIVE SumOf(_)
SumOf(k) == IF k = 0 THEN Zero ELSE LET s == SumOf(k - 1) IN Add(s, red.taken[k])
\* Term k, k > 1, is negligible against the running sum it was added to.
Negligible(k) ==
    LET s == SumOf(k)
    IN  ~IsZero(s) /\ Le(Div(red.taken[k], s), EPSILON)

\* C14, as claimed: once a negative term has been dealt with, the first
\* term included, the call has ended in AssertionError with no sum
\* returned; with no negative term, the call returns the running sum at the
\* first added term t with t / sum <= EPSILON and goes on before it.
C14_PreconditionOnEveryTerm ==
    IF \E k \in 1..Processed : Lt(red.taken[k], Zero)
    THEN red.status = "AssertionError"
    ELSE /\ red.status \in {"running", "returned", "returned None", "StopIteration"}
         /\ \A k \in 2..(Processed - 1) : ~Negligible(k)
         /\ Processed >= 2 =>
                IF Negligible(Processed)
                THEN red.status = "returned" /\ red.result = SumOf(Processed)
                     /\ Len(red.taken) = Processed
                ELSE red.status \in {"running", "returned None"}
                     /\ red.st.s = SumOf(Processed)

\* The locals of contfrac before it yields its k-th term.
ContfracGen(k) == IF k = 1 THEN [i |-> 0, started |-> FALSE]
                  ELSE [i |-> k - 2, started |-> TRUE]

\* The locals of continuants after the first k terms of gamma_above's
\* continued fraction at (a, x).
RECURSIVE GammaAboveContinuant(_, _, _)
GammaAboveContinuant(a, x, k) ==
    IF k = 0 THEN continuants_init
    ELSE LET cs == GammaAboveContinuant(a, x, k - 1)
             t == contfrac_term(ContfracGen(k), a, x)
         IN  continuants_step(cs, t[1], t[2])

====
